---- MODULE Spec2Model ----
(***************************************************************************)
(* A model of tseitin::proof_checker (src/sat/smt/tseitin_proof_checker.cpp)*)
(* : the check of one Tseitin clause against the connective of its         *)
(* deepest literal, and the equivalence test it uses.                      *)
(*                                                                         *)
(* Terms are hash-consed in the program, so pointer equality is structural *)
(* equality; a term is the record [op, args].                              *)
(***************************************************************************)
EXTENDS Integers, Sequences, FiniteSets, TLC

VARIABLES
    mode,        \* which family of clauses the calls of this run draw from
    track,       \* whether the first completed call is remembered (history)
    jst,         \* the justification's literals: the clause under test
    pc,          \* position inside check: idle scan dispatch populate eval close done abort
    idx,         \* the scan's position in jst (line 44)
    main_expr,   \* the representative literal (line 42)
    max_depth,   \* line 43
    rule,        \* index in Rules of the block being tested or run
    m_mark,      \* the positive channel of the mark store
    m_nmark,     \* the complement channel of the mark store
    open_scopes, \* number of scoped_mark objects alive
    aborted,     \* a scope was opened while another was open
    unscoped,    \* history: the mark store was used while no scope was open
    pending,     \* what the running block decided: true false fall none
    result,      \* the verdict of the call: true false none
    first,       \* history: clause and verdict of the first completed call
    eqA, eqB,    \* the arguments of the last equiv call
    eqRes        \* its result

vars == <<mode, track, jst, pc, idx, main_expr, max_depth, rule, m_mark, m_nmark,
          open_scopes, aborted, unscoped, pending, result, first, eqA, eqB, eqRes>>

checkVars == <<mode, track, jst, pc, idx, main_expr, max_depth, rule, m_mark, m_nmark,
               open_scopes, aborted, unscoped, pending, result, first>>

(***************************************************************************)
(* Bounds                                                                  *)
(***************************************************************************)
MaxLen == 3

(***************************************************************************)
(* Terms                                                                   *)
(***************************************************************************)
Null == [op |-> "null", args |-> <<>>]

Atom(n) == [op |-> n, args |-> <<>>]

App(o, as) == [op |-> o, args |-> as]

Not(t) == App("not", <<t>>)

IntAtomNames == {"n", "k"}

Connectives == {"not", "and", "or", "eq", "ite", "implies", "xor"}

is_atom(t) == t.op \notin Connectives /\ t # Null

is_not(t) == t.op = "not" /\ Len(t.args) = 1

is_and(t) == t.op = "and"

is_or(t) == t.op = "or"

is_eq(t) == t.op = "eq" /\ Len(t.args) = 2

is_ite(t) == t.op = "ite" /\ Len(t.args) = 3

is_implies(t) == t.op = "implies" /\ Len(t.args) = 2

is_xor(t) == t.op = "xor"

RECURSIVE is_bool(_)
is_bool(t) ==
    IF is_ite(t) THEN is_bool(t.args[2])
    ELSE IF t.op \in Connectives THEN TRUE
    ELSE t.op \notin IntAtomNames

RECURSIVE get_depth(_)
RECURSIVE MaxArgDepth(_)
MaxArgDepth(as) ==
    IF as = <<>> THEN 0
    ELSE LET d == get_depth(Head(as))
             r == MaxArgDepth(Tail(as))
         IN IF d > r THEN d ELSE r

get_depth(t) == 1 + MaxArgDepth(t.args)

Range(s) == {s[i] : i \in DOMAIN s}

(***************************************************************************)
(* equiv (lines 234-241)                                                   *)
(***************************************************************************)
equivStraight(a, b) ==
    IF a = b THEN TRUE
    ELSE IF is_eq(a) /\ is_eq(b)
         THEN a.args[1] = b.args[1] /\ a.args[2] = b.args[2]
         ELSE FALSE

equiv(a, b) ==
    IF a = b THEN TRUE
    ELSE IF is_eq(a) /\ is_eq(b)
         THEN a.args[1] = b.args[2] /\ a.args[2] = b.args[1]
         ELSE FALSE

(***************************************************************************)
(* The mark store (declared in tseitin_proof_checker.h; modelled from      *)
(* section 4.2 of the specification)                                       *)
(***************************************************************************)
is_marked(t) == t \in m_mark

is_complement(t) == IF is_not(t) THEN t.args[1] \in m_mark ELSE t \in m_nmark

\* mark(l) for every literal l of the clause
PlainMarks(c) == [pos |-> Range(c), neg |-> {}]

\* complement_mark(l) for every literal l of the clause
ComplementMarks(c) ==
    [pos |-> Range(c),
     neg |-> {c[i].args[1] : i \in {j \in DOMAIN c : is_not(c[j])}}]

(***************************************************************************)
(* Representative selection: one iteration of the loop of lines 44-52      *)
(***************************************************************************)
ScanUpdateAnyTie(held, depth, arg) ==
    LET d  == get_depth(arg)
        m1 == IF d > depth THEN arg ELSE held
        d1 == IF d > depth THEN d ELSE depth
    IN [main |-> IF d = d1 THEN arg ELSE m1, depth |-> d1]

ScanUpdate(held, depth, arg) ==
    LET d  == get_depth(arg)
        m1 == IF d > depth THEN arg ELSE held
        d1 == IF d > depth THEN d ELSE depth
    IN [main |-> IF d = d1 /\ is_not(m1) THEN arg ELSE m1, depth |-> d1]

(***************************************************************************)
(* The blocks of check, in program order.  Every block but the (not a) a'  *)
(* loop declares a scoped_mark as its first statement.                     *)
(***************************************************************************)
Rules == <<"and", "or", "eq_bool", "eq_ite", "ite", "implies", "xor",
           "not_equiv", "not_and", "not_or", "not_eq", "not_ite",
           "not_implies", "not_xor">>

MarkRules == Range(Rules) \ {"not_equiv"}

HasScopeOmitted(r) == r \in MarkRules \ {"eq_ite", "implies"}

\* the block of rule r declares "scoped_mark sm(*this);"
HasScope(r) == r \in MarkRules

\* the blocks that populate the store with mark() instead of complement_mark()
PlainRules == {"not_and", "not_or"}

\* the operand a of main_expr = (not a)
NotArg == main_expr.args[1]

\* the condition that guards the block of rule r
Guard(r) ==
    CASE r = "and"         -> is_and(main_expr)
      [] r = "or"          -> is_or(main_expr)
      [] r = "eq_bool"     -> is_eq(main_expr) /\ is_bool(main_expr.args[1])
      [] r = "eq_ite"      -> is_eq(main_expr) /\ is_ite(main_expr.args[1])
      [] r = "ite"         -> is_ite(main_expr) /\ is_bool(main_expr.args[3])
      [] r = "implies"     -> is_implies(main_expr)
      [] r = "xor"         -> is_xor(main_expr)
      [] r = "not_equiv"   -> is_not(main_expr)
      [] r = "not_and"     -> is_not(main_expr) /\ is_and(NotArg)
      [] r = "not_or"      -> is_not(main_expr) /\ is_or(NotArg)
      [] r = "not_eq"      -> is_not(main_expr) /\ is_eq(NotArg) /\ is_bool(NotArg.args[1])
      [] r = "not_ite"     -> is_not(main_expr) /\ is_ite(NotArg) /\ is_bool(NotArg.args[3])
      [] r = "not_implies" -> is_not(main_expr) /\ is_implies(NotArg)
      [] r = "not_xor"     -> is_not(main_expr) /\ is_xor(NotArg)

\* C++ remainder: truncated towards zero
CRem(x, m) == IF x >= 0 THEN x % m ELSE -((-x) % m)

\* the parity loops of lines 140-145 and 217-222: marked counts +1, else
\* complemented counts -1
XorParityIndependent(as, init) ==
    init + Cardinality({i \in DOMAIN as : is_marked(as[i])})
         - Cardinality({i \in DOMAIN as : is_complement(as[i])})

XorParity(as, init) ==
    init + Cardinality({i \in DOMAIN as : is_marked(as[i])})
         - Cardinality({i \in DOMAIN as : ~is_marked(as[i]) /\ is_complement(as[i])})

\* What each block decides once the store is populated: return true, return
\* false, or fall through to the code after the block.
CheckAndSome ==
    IF \E i \in DOMAIN main_expr.args : is_complement(main_expr.args[i])
    THEN "true" ELSE "false"

CheckAnd ==
    IF \A i \in DOMAIN main_expr.args : is_complement(main_expr.args[i])
    THEN "true" ELSE "false"

CheckOr ==
    IF \E i \in DOMAIN main_expr.args : is_complement(main_expr.args[i])
    THEN "true" ELSE "false"

CheckEqBool ==
    LET x == main_expr.args[1]
        y == main_expr.args[2]
    IN IF is_marked(x) /\ is_marked(y) THEN "true"
       ELSE IF is_complement(x) /\ is_complement(y) THEN "true"
       ELSE "fall"

CheckEqIte ==
    LET x == main_expr.args[1]
        y == main_expr.args[2]
        z == x.args[1]
        u == x.args[2]
        v == x.args[3]
    IN IF is_marked(z) /\ equiv(y, v) THEN "true"
       ELSE IF is_complement(z) /\ equiv(y, u) THEN "true"
       ELSE "fall"

CheckIte ==
    LET x == main_expr.args[1]
        y == main_expr.args[2]
        z == main_expr.args[3]
    IN IF is_marked(x) /\ is_complement(z) THEN "true"
       ELSE IF is_complement(x) /\ is_complement(y) THEN "true"
       ELSE IF is_complement(y) /\ is_complement(z) THEN "true"
       ELSE "fall"

CheckImplies ==
    LET x == main_expr.args[1]
        y == main_expr.args[2]
    IN IF is_marked(x) THEN "true"
       ELSE IF is_complement(y) THEN "true"
       ELSE "fall"

CheckXor ==
    IF CRem(XorParity(main_expr.args, 0), 2) = 0 THEN "true" ELSE "fall"

CheckNotAnd ==
    IF \E i \in DOMAIN NotArg.args : is_marked(NotArg.args[i])
    THEN "true" ELSE "fall"

CheckNotOrSome ==
    IF \E i \in DOMAIN NotArg.args : is_marked(NotArg.args[i])
    THEN "true" ELSE "false"

CheckNotOr ==
    IF \A i \in DOMAIN NotArg.args : is_marked(NotArg.args[i])
    THEN "true" ELSE "false"

CheckNotEq ==
    LET x == NotArg.args[1]
        y == NotArg.args[2]
    IN IF is_marked(x) /\ is_complement(y) THEN "true"
       ELSE IF is_marked(y) /\ is_complement(x) THEN "true"
       ELSE "fall"

CheckNotIte ==
    LET x == NotArg.args[1]
        y == NotArg.args[2]
        z == NotArg.args[3]
    IN IF is_complement(x) /\ is_marked(y) THEN "true"
       ELSE IF is_marked(x) /\ is_marked(z) THEN "true"
       ELSE IF is_marked(y) /\ is_marked(z) THEN "true"
       ELSE "fall"

CheckNotImplies ==
    LET x == NotArg.args[1]
        y == NotArg.args[2]
    IN IF is_complement(x) /\ is_marked(y) THEN "true" ELSE "fall"

\* the loop of line 218 runs over the arguments of main_expr, the negation,
\* not over those of the xor
CheckNotXor ==
    IF CRem(XorParity(main_expr.args, 1), 2) = 0 THEN "true" ELSE "fall"

Outcome(r) ==
    CASE r = "and"         -> CheckAnd
      [] r = "or"          -> CheckOr
      [] r = "eq_bool"     -> CheckEqBool
      [] r = "eq_ite"      -> CheckEqIte
      [] r = "ite"         -> CheckIte
      [] r = "implies"     -> CheckImplies
      [] r = "xor"         -> CheckXor
      [] r = "not_and"     -> CheckNotAnd
      [] r = "not_or"      -> CheckNotOr
      [] r = "not_eq"      -> CheckNotEq
      [] r = "not_ite"     -> CheckNotIte
      [] r = "not_implies" -> CheckNotImplies
      [] r = "not_xor"     -> CheckNotXor

\* the first block at or after position i whose guard holds; Len(Rules) + 1
\* when none does
RECURSIVE NextBlock(_)
NextBlock(i) ==
    IF i > Len(Rules) THEN i
    ELSE IF Guard(Rules[i]) THEN i
    ELSE NextBlock(i + 1)

(***************************************************************************)
(* Inputs: the clauses the calls are drawn from                            *)
(***************************************************************************)
A == Atom("a")

B == Atom("b")

C == Atom("c")

D == Atom("d")

N == Atom("n")

K == Atom("k")

IteNK == App("ite", <<A, N, K>>)

AndOrLits ==
    {A, B, Not(A), Not(B), App("and", <<A, B>>), App("or", <<A, B>>),
     Not(App("and", <<A, B>>)), Not(App("or", <<A, B>>)),
     App("and", <<Not(A), B>>)}

EqLits ==
    {A, B, Not(A), Not(B), App("eq", <<A, B>>), App("eq", <<B, A>>),
     Not(App("eq", <<A, B>>)), App("eq", <<App("ite", <<A, B, A>>), A>>),
     App("eq", <<Not(A), B>>)}

SortLits ==
    {A, Not(A), App("eq", <<N, K>>), App("eq", <<K, N>>),
     Not(App("eq", <<N, K>>)), App("eq", <<IteNK, K>>),
     App("eq", <<IteNK, N>>), Not(App("eq", <<IteNK, K>>))}

IteLits ==
    {A, B, C, Not(A), Not(B), Not(C), App("ite", <<A, B, C>>),
     Not(App("ite", <<A, B, C>>)), App("implies", <<A, B>>),
     Not(App("implies", <<A, B>>))}

XorLits ==
    {A, B, Not(A), Not(B), App("xor", <<A, B>>), Not(App("xor", <<A, B>>)),
     App("xor", <<A, B, B>>), App("xor", <<Not(A), B>>)}

PurityLits == {A, App("implies", <<A, B>>), Not(App("or", <<A, B>>))}

SeqsUpTo(S, n) == UNION {[1..k -> S] : k \in 0..n}

RemoveAt(c, i) == [j \in 1..(Len(c) - 1) |-> IF j < i THEN c[j] ELSE c[j + 1]]

\* the positive examples of the specification's section 8
Positive ==
    { <<App("and", <<A, B>>), Not(A), Not(B)>>,
      <<App("or", <<A, B>>), Not(A)>>,
      <<App("eq", <<A, B>>), A, B>>,
      <<App("eq", <<A, B>>), Not(A), Not(B)>>,
      <<App("implies", <<A, B>>), A>>,
      <<App("implies", <<A, B>>), Not(B)>>,
      <<App("xor", <<A, B, C, D>>), A, B, Not(C), Not(D)>>,
      <<Not(App("and", <<A, B>>)), A>> }

\* each positive example with one literal removed
Deleted == UNION {{RemoveAt(c, i) : i \in DOMAIN c} : c \in Positive}

AndOrClauses == SeqsUpTo(AndOrLits, MaxLen)

EqClauses == SeqsUpTo(EqLits, MaxLen)

SortClauses == SeqsUpTo(SortLits, MaxLen)

IteClauses == SeqsUpTo(IteLits, MaxLen)

XorClauses == SeqsUpTo(XorLits, MaxLen)

PurityClauses == SeqsUpTo(PurityLits, MaxLen)

ExampleClauses == Positive \cup Deleted

Modes == {"andor", "eq", "sort", "ite", "xor", "examples"}

Inputs(m) ==
    CASE m = "andor"    -> AndOrClauses
      [] m = "eq"       -> EqClauses
      [] m = "sort"     -> SortClauses
      [] m = "ite"      -> IteClauses
      [] m = "xor"      -> XorClauses
      [] m = "examples" -> ExampleClauses
      [] m = "purity"   -> PurityClauses

AllTerms ==
    AndOrLits \cup EqLits \cup SortLits \cup IteLits \cup XorLits
        \cup {App("and", <<B, A>>), N, K, IteNK}

(***************************************************************************)
(* The state machine                                                       *)
(***************************************************************************)
NoCall == [clause |-> <<>>, verdict |-> "none"]

Start ==
    /\ jst = <<>>
    /\ pc = "idle"
    /\ idx = 0
    /\ main_expr = Null
    /\ max_depth = 0
    /\ rule = 0
    /\ m_mark = {}
    /\ m_nmark = {}
    /\ open_scopes = 0
    /\ aborted = FALSE
    /\ unscoped = FALSE
    /\ pending = "none"
    /\ result = "none"
    /\ first = NoCall
    /\ eqA = Null
    /\ eqB = Null
    /\ eqRes = FALSE

Init == mode \in Modes /\ track = FALSE /\ Start

InitPurity == mode = "purity" /\ track = TRUE /\ Start

InitEquiv == mode = "equiv" /\ track = FALSE /\ Start

\* check(jst) is entered: lines 41-43
Call ==
    /\ pc = "idle"
    /\ \E c \in Inputs(mode) : jst' = c
    /\ pc' = "scan"
    /\ idx' = 1
    /\ main_expr' = Null
    /\ max_depth' = 0
    /\ result' = "none"
    /\ UNCHANGED <<mode, track, rule, m_mark, m_nmark, open_scopes, aborted,
                   unscoped, pending, first, eqA, eqB, eqRes>>

\* one iteration of the loop of lines 44-52
ScanStep ==
    /\ pc = "scan"
    /\ idx <= Len(jst)
    /\ LET u == ScanUpdate(main_expr, max_depth, jst[idx])
       IN main_expr' = u.main /\ max_depth' = u.depth
    /\ idx' = idx + 1
    /\ UNCHANGED <<mode, track, jst, pc, rule, m_mark, m_nmark, open_scopes,
                   aborted, unscoped, pending, result, first, eqA, eqB, eqRes>>

\* the verdict when the scan found no representative (line 55)
NoMainVerdictTrue == "true"

NoMainVerdict == "false"

\* the loop's end and lines 54-55
EndScan ==
    /\ pc = "scan"
    /\ idx > Len(jst)
    /\ IF main_expr = Null
       THEN pc' = "done" /\ result' = NoMainVerdict /\ rule' = rule
       ELSE pc' = "dispatch" /\ result' = result /\ rule' = 1
    /\ UNCHANGED <<mode, track, jst, idx, main_expr, max_depth, m_mark, m_nmark,
                   open_scopes, aborted, unscoped, pending, first, eqA, eqB, eqRes>>

\* control reaches the next block whose guard holds, and its scoped_mark is
\* constructed (lines 61-62, 74-75, 86-87, 96-97, 109-110, 125-126, 136-137,
\* 158-159, 168-169, 179-180, 191-192, 204-205, 213-214)
EnterBlock ==
    /\ pc = "dispatch"
    /\ LET i == NextBlock(rule)
       IN /\ i <= Len(Rules)
          /\ Rules[i] # "not_equiv"
          /\ rule' = i
          /\ IF HasScope(Rules[i])
             THEN IF open_scopes > 0
                  THEN aborted' = TRUE /\ pc' = "abort" /\ open_scopes' = open_scopes
                  ELSE aborted' = aborted /\ pc' = "populate" /\ open_scopes' = 1
             ELSE aborted' = aborted /\ pc' = "populate" /\ open_scopes' = open_scopes
    /\ UNCHANGED <<mode, track, jst, idx, main_expr, max_depth, m_mark, m_nmark,
                   unscoped, pending, result, first, eqA, eqB, eqRes>>

\* (or (not a) a'): lines 150-155
NotEquivLoop ==
    /\ pc = "dispatch"
    /\ LET i == NextBlock(rule)
       IN /\ i <= Len(Rules)
          /\ Rules[i] = "not_equiv"
          /\ IF \E k \in DOMAIN jst : equiv(NotArg, jst[k])
             THEN pc' = "done" /\ result' = "true" /\ rule' = i
             ELSE pc' = "dispatch" /\ result' = result /\ rule' = i + 1
    /\ UNCHANGED <<mode, track, jst, idx, main_expr, max_depth, m_mark, m_nmark,
                   open_scopes, aborted, unscoped, pending, first, eqA, eqB, eqRes>>

\* no block is left: line 231
ReturnFalse ==
    /\ pc = "dispatch"
    /\ NextBlock(rule) > Len(Rules)
    /\ rule' = NextBlock(rule)
    /\ pc' = "done"
    /\ result' = "false"
    /\ UNCHANGED <<mode, track, jst, idx, main_expr, max_depth, m_mark, m_nmark,
                   open_scopes, aborted, unscoped, pending, first, eqA, eqB, eqRes>>

\* the block's marking loop over the clause
Populate ==
    /\ pc = "populate"
    /\ LET marks == IF Rules[rule] \in PlainRules
                    THEN PlainMarks(jst) ELSE ComplementMarks(jst)
       IN m_mark' = m_mark \cup marks.pos /\ m_nmark' = m_nmark \cup marks.neg
    /\ unscoped' = (unscoped \/ open_scopes = 0)
    /\ pc' = "eval"
    /\ UNCHANGED <<mode, track, jst, idx, main_expr, max_depth, rule, open_scopes,
                   aborted, pending, result, first, eqA, eqB, eqRes>>

\* the block's tests of the store
Evaluate ==
    /\ pc = "eval"
    /\ pending' = Outcome(Rules[rule])
    /\ unscoped' = (unscoped \/ open_scopes = 0)
    /\ pc' = "close"
    /\ UNCHANGED <<mode, track, jst, idx, main_expr, max_depth, rule, m_mark,
                   m_nmark, open_scopes, aborted, result, first, eqA, eqB, eqRes>>

\* control leaves the block, by return or through its closing brace: the
\* scoped_mark is destroyed and the store is reset
Close ==
    /\ pc = "close"
    /\ IF HasScope(Rules[rule])
       THEN m_mark' = {} /\ m_nmark' = {} /\ open_scopes' = open_scopes - 1
       ELSE UNCHANGED <<m_mark, m_nmark, open_scopes>>
    /\ IF pending = "fall"
       THEN pc' = "dispatch" /\ rule' = rule + 1 /\ result' = result
       ELSE pc' = "done" /\ rule' = rule /\ result' = pending
    /\ pending' = "none"
    /\ UNCHANGED <<mode, track, jst, idx, main_expr, max_depth, aborted, unscoped,
                   first, eqA, eqB, eqRes>>

\* check has returned; the caller may call again
Return ==
    /\ pc = "done"
    /\ pc' = "idle"
    /\ first' = IF track /\ first = NoCall
                THEN [clause |-> jst, verdict |-> result] ELSE first
    /\ jst' = <<>>
    /\ idx' = 0
    /\ main_expr' = Null
    /\ max_depth' = 0
    /\ rule' = 0
    /\ result' = "none"
    /\ UNCHANGED <<mode, track, m_mark, m_nmark, open_scopes, aborted, unscoped,
                   pending, eqA, eqB, eqRes>>

\* a call of equiv on two terms
EquivCall ==
    /\ \E a \in AllTerms, b \in AllTerms :
          eqA' = a /\ eqB' = b /\ eqRes' = equiv(a, b)
    /\ UNCHANGED checkVars

Next ==
    \/ Call
    \/ ScanStep
    \/ EndScan
    \/ EnterBlock
    \/ NotEquivLoop
    \/ ReturnFalse
    \/ Populate
    \/ Evaluate
    \/ Close
    \/ Return

NextEquiv == EquivCall

Spec == Init /\ [][Next]_vars

SpecPurity == InitPurity /\ [][Next]_vars

SpecEquiv == InitEquiv /\ [][NextEquiv]_vars

(***************************************************************************)
(* Vocabulary of the properties                                            *)
(***************************************************************************)
Returned == pc = "done"

Literals == Range(jst)

\* the complement of a literal: one negation added or stripped
Compl(t) == IF is_not(t) THEN t.args[1] ELSE Not(t)

\* how many of the arguments as are literals of the clause
Present(as) == Cardinality({i \in DOMAIN as : as[i] \in Literals})

\* how many of the arguments as have their complement among the literals
Complemented(as) == Cardinality({i \in DOMAIN as : Compl(as[i]) \in Literals})

\* how many of the arguments as are absent while their complement is a literal
ComplementedOnly(as) ==
    Cardinality({i \in DOMAIN as : as[i] \notin Literals /\ Compl(as[i]) \in Literals})

Even(x) == x % 2 = 0

AtomNames == {"a", "b", "c", "d", "n", "k"}

Assignments == [AtomNames -> {0, 1}]

\* the standard semantics of the connectives
RECURSIVE Holds(_, _)
RECURSIVE Value(_, _)
Value(t, v) ==
    IF is_ite(t)
    THEN IF Holds(t.args[1], v) THEN Value(t.args[2], v) ELSE Value(t.args[3], v)
    ELSE v[t.op]

Holds(t, v) ==
    CASE t.op = "not"     -> ~Holds(t.args[1], v)
      [] t.op = "and"     -> \A i \in DOMAIN t.args : Holds(t.args[i], v)
      [] t.op = "or"      -> \E i \in DOMAIN t.args : Holds(t.args[i], v)
      [] t.op = "eq"      -> IF is_bool(t.args[1])
                             THEN Holds(t.args[1], v) <=> Holds(t.args[2], v)
                             ELSE Value(t.args[1], v) = Value(t.args[2], v)
      [] t.op = "ite"     -> IF Holds(t.args[1], v)
                             THEN Holds(t.args[2], v) ELSE Holds(t.args[3], v)
      [] t.op = "implies" -> Holds(t.args[1], v) => Holds(t.args[2], v)
      [] t.op = "xor"     -> ~Even(Cardinality({i \in DOMAIN t.args : Holds(t.args[i], v)}))
      [] OTHER            -> v[t.op] = 1

\* a term built from Boolean atoms and the connectives only
RECURSIVE PureBool(_)
PureBool(t) ==
    /\ t.op \notin IntAtomNames
    /\ \A i \in DOMAIN t.args : PureBool(t.args[i])

Valid(c) == \A v \in Assignments : \E i \in DOMAIN c : Holds(c[i], v)

MaxDepthOf(c) ==
    IF c = <<>> THEN 0
    ELSE CHOOSE d \in {get_depth(c[i]) : i \in DOMAIN c} :
            \A i \in DOMAIN c : get_depth(c[i]) <= d

SetMin(S) == CHOOSE x \in S : \A y \in S : x <= y

SetMax(S) == CHOOSE x \in S : \A y \in S : y <= x

\* the representative in closed form: the first non-negated literal of
\* maximal depth, or the last literal of maximal depth when all are negations
Rep(c) ==
    IF c = <<>> THEN Null
    ELSE LET tied  == {i \in DOMAIN c : get_depth(c[i]) = MaxDepthOf(c)}
             plain == {i \in tied : ~is_not(c[i])}
         IN IF plain # {} THEN c[SetMin(plain)] ELSE c[SetMax(tied)]

(***************************************************************************)
(* Properties                                                              *)
(***************************************************************************)

\* C1: soundness of the verdict.  When check returns true on a clause of
\* Boolean terms, the disjunction of its literals is true under every truth
\* assignment to the atoms.
C1_Soundness ==
    (Returned /\ result = "true" /\ \A i \in DOMAIN jst : PureBool(jst[i]))
        => Valid(jst)

\* C2: purity.  Once check has returned, on any exit path, both channels of
\* the mark store are empty and no scope is open; and a call on the clause of
\* the first call of the run returns the verdict that first call returned.
C2_Purity ==
    /\ pc \in {"done", "idle"} => m_mark = {} /\ m_nmark = {} /\ open_scopes = 0
    /\ (Returned /\ first # NoCall /\ first.clause = jst) => result = first.verdict

C2_Witness ==
    /\ Returned
    /\ first # NoCall
    /\ first.clause = jst
    /\ rule \in DOMAIN Rules
    /\ Rules[rule] = "implies"
    /\ result = "true"

\* C3: on the empty clause check finds no representative and returns false
\* without entering a block, opening a scope, marking anything or aborting.
C3_EmptyClause ==
    (pc # "idle" /\ jst = <<>>) =>
        /\ pc \in {"scan", "done"}
        /\ Returned => result = "false"
        /\ main_expr = Null
        /\ open_scopes = 0
        /\ m_mark = {} /\ m_nmark = {}
        /\ ~aborted /\ ~unscoped

C3_Witness == Returned /\ jst = <<>> /\ result = "false" /\ mode # "examples"

\* C4: each positive example of the specification is accepted, and each of
\* them with any single literal removed is rejected.
C4_Examples ==
    Returned =>
        /\ jst \in Positive => result = "true"
        /\ jst \in Deleted => result = "false"

C4_Witness ==
    /\ Returned
    /\ jst = <<App("xor", <<A, B, C, D>>), A, B, Not(C), Not(D)>>
    /\ result = "true"

\* C5: representative selection.  At every point of the scan the held literal
\* is the first non-negated literal of maximal depth of the literals scanned
\* so far, or their last literal of maximal depth when all those are
\* negations; so the representative has maximal depth, a held non-negated
\* literal of maximal depth is never displaced by a literal of equal depth,
\* and a held literal gives way on a tie only when it is a negation.
C5_Representative ==
    /\ pc = "scan" =>
          /\ main_expr = Rep(SubSeq(jst, 1, idx - 1))
          /\ max_depth = MaxDepthOf(SubSeq(jst, 1, idx - 1))
    /\ pc \in {"dispatch", "populate", "eval", "close", "done"} =>
          /\ main_expr = Rep(jst)
          /\ max_depth = MaxDepthOf(jst)
          /\ jst # <<>> => main_expr \in Literals /\ get_depth(main_expr) = MaxDepthOf(jst)

C5_Witness ==
    /\ pc = "dispatch"
    /\ Len(jst) = 3
    /\ is_not(jst[1]) /\ ~is_not(jst[2]) /\ is_not(jst[3])
    /\ \A i \in DOMAIN jst : get_depth(jst[i]) = max_depth
    /\ main_expr = jst[2]

\* C6: equiv(a, b) is true exactly when a and b are the same term or both are
\* equalities with crossed arguments; it is reflexive, true of eq(x,y) and
\* eq(y,x), and false of and(a,b) and and(b,a).
C6_Equiv ==
    eqA # Null =>
        /\ eqRes <=> \/ eqA = eqB
                     \/ /\ eqA.op = "eq" /\ eqB.op = "eq"
                        /\ eqA.args = <<eqB.args[2], eqB.args[1]>>
        /\ eqA = eqB => eqRes
        /\ (eqA = App("eq", <<N, K>>) /\ eqB = App("eq", <<K, N>>)) => eqRes
        /\ (eqA = App("and", <<A, B>>) /\ eqB = App("and", <<B, A>>)) => ~eqRes

C6_Witness == eqA = App("eq", <<N, K>>) /\ eqB = App("eq", <<K, N>>) /\ eqRes

\* C7: when the representative is not(xor(b1..bn)), check returns true exactly
\* when 1 + (number of bi that are clause literals) - (number of bi whose
\* complement is a clause literal) is even.
C7_NotXorParity ==
    (Returned /\ is_not(main_expr) /\ is_xor(NotArg)) =>
        (result = "true" <=>
            Even(1 + Present(NotArg.args) - Complemented(NotArg.args)))

\* C8 as stated: when the representative is xor(a1..an), check returns true
\* exactly when (number of ai that are clause literals) - (number of ai whose
\* complement is a clause literal) is even, also when some ai is present
\* together with its complement.
C8_XorParityAsStated ==
    (Returned /\ is_xor(main_expr)) =>
        (result = "true" <=>
            Even(Present(main_expr.args) - Complemented(main_expr.args)))

\* C8 amended: when the representative is xor(a1..an), check returns true
\* exactly when (number of ai that are clause literals) - (number of ai that
\* are not clause literals while their complement is one) is even.
C8_XorParity ==
    (Returned /\ is_xor(main_expr)) =>
        (result = "true" <=>
            Even(Present(main_expr.args) - ComplementedOnly(main_expr.args)))

C8_Witness ==
    /\ Returned
    /\ is_xor(main_expr)
    /\ \E i \in DOMAIN main_expr.args :
          main_expr.args[i] \in Literals /\ Compl(main_expr.args[i]) \in Literals
    /\ ~Even(Present(main_expr.args) - ComplementedOnly(main_expr.args))
    /\ result = "false"

\* C9 as stated: when the representative is not(or(b1..bn)), check returns
\* true exactly when every bi is a clause literal.
C9_NotOrAsStated ==
    (Returned /\ is_not(main_expr) /\ is_or(NotArg)) =>
        (result = "true" <=> \A i \in DOMAIN NotArg.args : NotArg.args[i] \in Literals)

\* C9 amended: when the representative is not(or(b1..bn)), check returns true
\* exactly when or(b1..bn) itself is a clause literal or every bi is one.
C9_NotOr ==
    (Returned /\ is_not(main_expr) /\ is_or(NotArg)) =>
        (result = "true" <=>
            \/ NotArg \in Literals
            \/ \A i \in DOMAIN NotArg.args : NotArg.args[i] \in Literals)

C9_Witness ==
    /\ Returned
    /\ is_not(main_expr)
    /\ is_or(NotArg)
    /\ NotArg \notin Literals
    /\ \A i \in DOMAIN NotArg.args : NotArg.args[i] \in Literals
    /\ result = "true"

\* C10: scope discipline.  At most one scope is open at any point, a scope is
\* open exactly while a block populates or tests the store, it is closed
\* before the next block is entered or check returns, the double open is
\* never reached, and the store is never used outside a scope.
C10_ScopeDiscipline ==
    /\ open_scopes \in {0, 1}
    /\ open_scopes = 1 <=> pc \in {"populate", "eval", "close"}
    /\ ~aborted
    /\ pc # "abort"
    /\ ~unscoped

C10_Witness ==
    /\ pc = "close"
    /\ Rules[rule] = "eq_ite"
    /\ is_bool(main_expr.args[1])
    /\ pending = "fall"
    /\ open_scopes = 1

====
